---- MODULE Spec2Model ----
(***************************************************************************)
(* A model of fancy-free-walks (src/src/main.rs): a KML tree is walked,    *)
(* every placemark is decoded into a Walk record, the records are sorted   *)
(* by distance from home and exported to out.csv.                          *)
(*                                                                         *)
(* Representation.                                                         *)
(*   - Text (String) is a sequence of one-character strings; the three     *)
(*     vulgar-fraction glyphs U+00BC, U+00BD, U+00BE are written "1/4",    *)
(*     "1/2", "3/4", and the non-ASCII decimal digit U+0663 is "U+0663".   *)
(*   - Option<T> is a sequence of length 0 (None) or 1 (Some).             *)
(*   - f64 values are exact scaled integers: coordinates in microdegrees,  *)
(*     length in hundredths of a mile, distance in tenths of a mile,       *)
(*     Distance::meters() in millimetres.                                  *)
(***************************************************************************)
EXTENDS Integers, Sequences, FiniteSets, TLC

VARIABLES pc, aborted, kmz_file, kmz_data, walks, stdout, csv, out_csv

vars == <<pc, aborted, kmz_file, kmz_data, walks, stdout, csv, out_csv>>

(***************************************************************************)
(* Bounds of the model.                                                    *)
(***************************************************************************)
\* longest description, in characters
MaxLen == 3
\* most nodes of a KML tree handed to the tree walk
MaxNodes == 4
\* most child elements of the document read by main
MaxWalks == 3

(***************************************************************************)
(* Program constants.                                                      *)
(***************************************************************************)
\* HOME_LATITUDE = 51.097848, in microdegrees
HOME_LATITUDE == 51097848
\* HOME_LONGITUDE = -0.243409, in microdegrees
HOME_LONGITUDE == -243409
\* the factor 0.006213712 of line 121, in units of 10^-9
TenthMilesPerMeter == 6213712

None == <<>>
Some(v) == <<v>>
IsSome(o) == Len(o) = 1
Unwrap(o) == o[1]

Max(a, b) == IF a > b THEN a ELSE b
Range(s) == {s[i] : i \in 1..Len(s)}

(***************************************************************************)
(* Characters.                                                             *)
(***************************************************************************)
Quarter == "1/4"
Half == "1/2"
ThreeQuarters == "3/4"
FractionGlyphs == {Quarter, Half, ThreeQuarters}
AsciiDigits == {"0", "1", "2", "3", "4", "5", "6", "7", "8", "9"}
\* \d of the regex crate is Unicode-aware: it matches every decimal digit (Nd)
UnicodeDigits == AsciiDigits \cup {"U+0663"}

DigitValue(c) ==
    CASE c = "0" -> 0 [] c = "1" -> 1 [] c = "2" -> 2 [] c = "3" -> 3
      [] c = "4" -> 4 [] c = "5" -> 5 [] c = "6" -> 6 [] c = "7" -> 7
      [] c = "8" -> 8 [] c = "9" -> 9

(***************************************************************************)
(* Regex (\d+[1/4 1/2 3/4]* ) and captures_iter: the leftmost, greedy,     *)
(* non-overlapping matches of a description, in order.                     *)
(***************************************************************************)
RECURSIVE RunEnd(_, _, _)
\* the last index of the run of characters of `class` that starts at i
\* (i - 1 when s[i] is not in the class)
RunEnd(s, i, class) ==
    IF i <= Len(s) /\ s[i] \in class THEN RunEnd(s, i + 1, class) ELSE i - 1

RECURSIVE CapturesFrom(_, _)
CapturesFrom(s, i) ==
    IF i > Len(s) THEN <<>>
    ELSE IF s[i] \in UnicodeDigits
         THEN LET j == RunEnd(s, i, UnicodeDigits)
                  k == RunEnd(s, j + 1, FractionGlyphs)
              IN  <<SubSeq(s, i, k)>> \o CapturesFrom(s, k + 1)
         ELSE CapturesFrom(s, i + 1)

captures_iter(s) == CapturesFrom(s, 1)

(***************************************************************************)
(* String::replace of the three glyphs, then str::parse::<f64>.            *)
(***************************************************************************)
ReplaceChar(c) ==
    CASE c = Quarter -> <<".", "2", "5">>
      [] c = Half -> <<".", "5", "0">>
      [] c = ThreeQuarters -> <<".", "7", "5">>
      [] OTHER -> <<c>>

RECURSIVE ReplaceGlyphs(_)
ReplaceGlyphs(s) ==
    IF s = <<>> THEN <<>> ELSE ReplaceChar(Head(s)) \o ReplaceGlyphs(Tail(s))

RECURSIVE DecimalValue(_)
\* the value of a run of ASCII digits
DecimalValue(s) ==
    IF s = <<>> THEN 0
    ELSE 10 * DecimalValue(SubSeq(s, 1, Len(s) - 1)) + DigitValue(s[Len(s)])

AllAsciiDigits(s) == \A i \in 1..Len(s) : s[i] \in AsciiDigits

\* faulty variant: a lenient parse that stops at a second "." instead of failing
ParseF64Prefix(s) ==
    LET dots == {i \in 1..Len(s) : s[i] = "."}
        dot == IF dots = {} THEN Len(s) + 1 ELSE CHOOSE i \in dots : \A j \in dots : i <= j
        later == {i \in dots : i > dot}
        end == IF later = {} THEN Len(s) ELSE (CHOOSE i \in later : \A j \in later : i <= j) - 1
        int == SubSeq(s, 1, dot - 1)
        frac == SubSeq(s, dot + 1, end)
        frac2 == SubSeq(frac \o <<"0", "0">>, 1, 2)
    IN  IF AllAsciiDigits(int) /\ AllAsciiDigits(frac) /\ Len(int) + Len(frac) > 0
        THEN Some(100 * DecimalValue(int) + DecimalValue(frac2))
        ELSE None

\* f64::from_str on text without sign or exponent: ASCII digits with at most
\* one ".", at least one digit. The result is in hundredths; the replaced
\* tokens carry fractions of exactly two digits.
ParseF64(s) ==
    LET dots == {i \in 1..Len(s) : s[i] = "."}
        dot == IF dots = {} THEN Len(s) + 1 ELSE CHOOSE i \in dots : \A j \in dots : i <= j
        int == SubSeq(s, 1, dot - 1)
        frac == SubSeq(s, dot + 1, Len(s))
        frac2 == SubSeq(frac \o <<"0", "0">>, 1, 2)
    IN  IF AllAsciiDigits(int) /\ AllAsciiDigits(frac) /\ Len(int) + Len(frac) > 0
        THEN Some(100 * DecimalValue(int) + DecimalValue(frac2))
        ELSE None

(***************************************************************************)
(* Lines 93-106: the largest parsed token of the description, or a panic   *)
(* of the unwrap of line 100 at the first token that does not parse.       *)
(***************************************************************************)
RECURSIVE LengthLoopKeepLast(_, _, _)
\* faulty variant: the last parsed token is kept, not the largest
LengthLoopKeepLast(groups, i, length) ==
    IF i > Len(groups) THEN Some(length)
    ELSE LET tmp == ParseF64(ReplaceGlyphs(groups[i]))
         IN  IF ~IsSome(tmp) THEN None
             ELSE LengthLoopKeepLast(groups, i + 1, Unwrap(tmp))

RECURSIVE LengthLoop(_, _, _)
LengthLoop(groups, i, length) ==
    IF i > Len(groups) THEN Some(length)
    ELSE LET tmp == ParseF64(ReplaceGlyphs(groups[i]))
         IN  IF ~IsSome(tmp) THEN None
             ELSE LengthLoop(groups, i + 1, Max(length, Unwrap(tmp)))

DecodeLength(description) == LengthLoop(captures_iter(description), 1, 0)

(***************************************************************************)
(* Lines 118-120: Location::distance_to, the geodesic library's distance   *)
(* between home and the walk's start, tabulated for the coordinates the    *)
(* model uses: Ok(millimetres), or Err when the iteration does not         *)
(* converge (the point opposite home on the globe). The values are those   *)
(* of Vincenty's inverse formula on WGS-84 as the library iterates it:     *)
(* the iteration stops as soon as the longitude on the auxiliary sphere    *)
(* changes by at most 1e-5 radians, and the result is rounded to the       *)
(* millimetre. Two points on one meridian need a single step; elsewhere    *)
(* the early stop leaves the result short of the converged geodesic.       *)
(***************************************************************************)
Coordinates ==
    { <<HOME_LATITUDE, HOME_LONGITUDE>>,
      <<51098348, -243409>>,
      <<51098500, -244000>>,
      <<51098848, -243409>>,
      <<51200000, -300000>>,
      <<51507400, -127800>>,
      <<-51097848, 179756591>> }

distance_to(latitude, longitude) ==
    CASE <<latitude, longitude>> = <<HOME_LATITUDE, HOME_LONGITUDE>> -> Some(0)
      [] <<latitude, longitude>> = <<51098348, -243409>> -> Some(55625)
      [] <<latitude, longitude>> = <<51098500, -244000>> -> Some(83491)
      [] <<latitude, longitude>> = <<51098848, -243409>> -> Some(111250)
      [] <<latitude, longitude>> = <<51200000, -300000>> -> Some(12032920)
      [] <<latitude, longitude>> = <<51507400, -127800>> -> Some(46270298)
      [] <<latitude, longitude>> = <<-51097848, 179756591>> -> None

(***************************************************************************)
(* Line 121: (distance.meters() * 0.006213712).round() / 10.0, in tenths   *)
(* of a mile. The product millimetres * 6213712 * 10^-12 is formed in base *)
(* 100 so that no intermediate value leaves the 32-bit integers.           *)
(***************************************************************************)
RECURSIVE Pow100(_)
Pow100(n) == IF n = 0 THEN 1 ELSE 100 * Pow100(n - 1)

Digit100(mm, i) == IF i > 4 THEN 0 ELSE (mm \div Pow100(i)) % 100

RECURSIVE ScaledPartial(_, _)
\* floor((mm mod 100^(n+1)) * 6213712 / 100^n)
ScaledPartial(mm, n) ==
    Digit100(mm, n) * TenthMilesPerMeter
      + (IF n = 0 THEN 0 ELSE ScaledPartial(mm, n - 1) \div 100)

\* faulty variant: rounded to the nearest whole mile, then expressed in tenths
DistanceMilesWholeMile(mm) == 10 * ((ScaledPartial(mm, 5) + 500) \div 1000)

\* round(): to the nearest integer, halves away from zero
DistanceMiles(mm) == (ScaledPartial(mm, 5) + 50) \div 100

(***************************************************************************)
(* Lines 72-138: the Placemark arm. Ok(walk), or a panic of one of the     *)
(* unwraps of lines 83, 100 and 120.                                       *)
(***************************************************************************)
Walk_new(name, description, length, latitude, longitude, distance) ==
    [name |-> name, description |-> description, length |-> length,
     latitude |-> latitude, longitude |-> longitude, distance |-> distance]

IsPoint(geometry) == IsSome(geometry) /\ Unwrap(geometry).type = "Point"

\* faulty variant: a placemark without a name gets the empty name
PlacemarkNameOrDefault(placemark) ==
    IF IsSome(placemark.name) THEN placemark.name ELSE Some(<<>>)

\* line 83: placemark.name, unwrapped by the caller
PlacemarkName(placemark) == placemark.name

\* lines 74, 85-87: the description, "" when the placemark has none
PlacemarkDescription(placemark) ==
    IF IsSome(placemark.description) THEN Unwrap(placemark.description) ELSE <<>>

\* faulty variant: a placemark without a description panics
PlacemarkLengthRequiringDescription(placemark) ==
    IF IsSome(placemark.description)
    THEN DecodeLength(Unwrap(placemark.description)) ELSE None

\* lines 75, 85-109: the length; None when the unwrap of line 100 panics
PlacemarkLength(placemark) ==
    IF IsSome(placemark.description)
    THEN DecodeLength(Unwrap(placemark.description)) ELSE Some(0)

\* faulty variant: the latitude is taken from the X ordinate
PlacemarkLatitudeFromX(placemark) ==
    IF IsPoint(placemark.geometry) THEN Unwrap(placemark.geometry).x ELSE 0

\* lines 76, 114
PlacemarkLatitude(placemark) ==
    IF IsPoint(placemark.geometry) THEN Unwrap(placemark.geometry).y ELSE 0

\* lines 77, 115
PlacemarkLongitude(placemark) ==
    IF IsPoint(placemark.geometry) THEN Unwrap(placemark.geometry).x ELSE 0

\* lines 78, 114-121: the distance in tenths of a mile; None when the unwrap
\* of line 120 panics
PlacemarkDistance(placemark) ==
    IF IsPoint(placemark.geometry)
    THEN LET walk_start == Unwrap(placemark.geometry)
             distance == distance_to(walk_start.y, walk_start.x)
         IN  IF IsSome(distance) THEN Some(DistanceMiles(Unwrap(distance))) ELSE None
    ELSE Some(0)

DecodePlacemark(placemark) ==
    LET name == PlacemarkName(placemark)
        length == PlacemarkLength(placemark)
        distance_miles == PlacemarkDistance(placemark)
    IN  IF ~IsSome(name) \/ ~IsSome(length) \/ ~IsSome(distance_miles)
        THEN None
        ELSE Some(Walk_new(Unwrap(name), PlacemarkDescription(placemark),
                           Unwrap(length), PlacemarkLatitude(placemark),
                           PlacemarkLongitude(placemark), Unwrap(distance_miles)))

(***************************************************************************)
(* Lines 44-145: parse_fancy_free_walks_map. The result is                 *)
(* [ok |-> TRUE, walks |-> the records] or, when a placemark's decoding    *)
(* panics, [ok |-> FALSE, walks |-> <<>>]: the panic unwinds through every *)
(* enclosing call.                                                         *)
(***************************************************************************)
ContainerKinds == {"KmlDocument", "Document", "Folder"}
IgnoredKinds == {"Element", "Style", "StyleMap"}

Panicked == [ok |-> FALSE, walks |-> <<>>]
Returned(ws) == [ok |-> TRUE, walks |-> ws]

RECURSIVE parse_fancy_free_walks_map(_)
RECURSIVE AppendChildren(_, _, _)
\* for child in elements { walks.append(&mut parse_fancy_free_walks_map(child)) }
AppendChildren(elements, i, ws) ==
    IF i > Len(elements) THEN Returned(ws)
    ELSE LET r == parse_fancy_free_walks_map(elements[i])
         IN  IF r.ok THEN AppendChildren(elements, i + 1, ws \o r.walks)
             ELSE Panicked

\* faulty variant: the Folder arm is missing, so folders fall to the catch-all arm
parse_without_folder_arm(element) ==
    IF element.kind \in {"KmlDocument", "Document"}
    THEN AppendChildren(element.elements, 1, <<>>)
    ELSE IF element.kind = "Placemark"
         THEN LET walk == DecodePlacemark(element)
              IN  IF IsSome(walk) THEN Returned(<<Unwrap(walk)>>) ELSE Panicked
    ELSE Returned(<<>>)

parse_fancy_free_walks_map(element) ==
    IF element.kind \in ContainerKinds THEN AppendChildren(element.elements, 1, <<>>)
    ELSE IF element.kind \in IgnoredKinds THEN Returned(<<>>)
    ELSE IF element.kind = "Placemark"
         THEN LET walk == DecodePlacemark(element)
              IN  IF IsSome(walk) THEN Returned(<<Unwrap(walk)>>) ELSE Panicked
    ELSE Returned(<<>>)

(***************************************************************************)
(* Line 156: walks.sort_by(|a, b| a.distance.partial_cmp(&b.distance)),    *)
(* the standard library's stable sort. No distance is NaN (DistanceMiles   *)
(* is a number), so the unwrap of the comparison never panics.             *)
(***************************************************************************)
RECURSIVE InsertBeforeEqual(_, _, _)
\* faulty variant: w goes in front of the records of equal distance
InsertBeforeEqual(sorted, w, i) ==
    IF i > Len(sorted) THEN Append(sorted, w)
    ELSE IF sorted[i].distance >= w.distance
         THEN SubSeq(sorted, 1, i - 1) \o <<w>> \o SubSeq(sorted, i, Len(sorted))
         ELSE InsertBeforeEqual(sorted, w, i + 1)

RECURSIVE InsertByDistance(_, _, _)
\* w goes behind every record whose distance is not greater than its own
InsertByDistance(sorted, w, i) ==
    IF i > Len(sorted) THEN Append(sorted, w)
    ELSE IF sorted[i].distance > w.distance
         THEN SubSeq(sorted, 1, i - 1) \o <<w>> \o SubSeq(sorted, i, Len(sorted))
         ELSE InsertByDistance(sorted, w, i + 1)

RECURSIVE SortFrom(_, _, _)
SortFrom(ws, i, sorted) ==
    IF i > Len(ws) THEN sorted
    ELSE SortFrom(ws, i + 1, InsertByDistance(sorted, ws[i], 1))

sort_by_distance(ws) == SortFrom(ws, 1, <<>>)

(***************************************************************************)
(* Lines 162-166: the csv writer. A line of out.csv is the sequence of its *)
(* fields, each a text; f64 fields are written in their shortest decimal   *)
(* form with at least one fractional digit.                                *)
(***************************************************************************)
DigitChars == <<"0", "1", "2", "3", "4", "5", "6", "7", "8", "9">>

RECURSIVE NatToText(_)
NatToText(n) ==
    IF n < 10 THEN <<DigitChars[n + 1]>>
    ELSE NatToText(n \div 10) \o <<DigitChars[(n % 10) + 1]>>

RECURSIVE Pow10(_)
Pow10(n) == IF n = 0 THEN 1 ELSE 10 * Pow10(n - 1)

RECURSIVE StripZeros(_, _)
\* frac without its trailing zeros, and the digits that are left (at least 1)
StripZeros(frac, digits) ==
    IF digits > 1 /\ frac % 10 = 0 THEN StripZeros(frac \div 10, digits - 1)
    ELSE <<frac, digits>>

RECURSIVE PaddedText(_, _)
\* n in exactly `digits` decimal digits
PaddedText(n, digits) ==
    IF digits = 0 THEN <<>>
    ELSE PaddedText(n \div 10, digits - 1) \o <<DigitChars[(n % 10) + 1]>>

FractionText(frac, digits) ==
    LET s == StripZeros(frac, digits) IN PaddedText(s[1], s[2])

\* the text of the f64 value v * 10^-decimals
FormatF64(v, decimals) ==
    LET a == IF v < 0 THEN -v ELSE v
    IN  (IF v < 0 THEN <<"-">> ELSE <<>>)
          \o NatToText(a \div Pow10(decimals)) \o <<".">>
          \o FractionText(a % Pow10(decimals), decimals)

\* the header row: the field names of struct Walk in declaration order
Header ==
    << <<"n", "a", "m", "e">>,
       <<"d", "e", "s", "c", "r", "i", "p", "t", "i", "o", "n">>,
       <<"l", "e", "n", "g", "t", "h">>,
       <<"l", "a", "t", "i", "t", "u", "d", "e">>,
       <<"l", "o", "n", "g", "i", "t", "u", "d", "e">>,
       <<"d", "i", "s", "t", "a", "n", "c", "e">> >>

Row(walk) ==
    <<walk.name, walk.description, FormatF64(walk.length, 2),
      FormatF64(walk.latitude, 6), FormatF64(walk.longitude, 6),
      FormatF64(walk.distance, 1)>>

\* faulty variant: the header is written before every record
SerializedLinesWithHeader(writer, walk) == <<Header, Row(walk)>>

\* what csv.serialize(walk) puts into the writer's buffer: the header before
\* the first record, then the record
SerializedLines(writer, walk) ==
    (IF writer.header_written THEN <<>> ELSE <<Header>>) \o <<Row(walk)>>

\* Writer::from_path: the file is created or truncated
NewWriter == [header_written |-> FALSE, buf |-> <<>>, next |-> 1]

(***************************************************************************)
(* Inputs: KML values (kml::Kml), bounded.                                 *)
(***************************************************************************)
PointGeometry(c) == [type |-> "Point", y |-> c[1], x |-> c[2]]
\* Option<Geometry>: absent, a point, or one of the other geometry kinds
Geometries ==
    {None} \cup {Some(PointGeometry(c)) : c \in Coordinates}
           \cup {Some([type |-> t]) : t \in {"LineString", "Polygon", "MultiGeometry"}}

Placemark(name, description, geometry) ==
    [kind |-> "Placemark", name |-> name, description |-> description,
     geometry |-> geometry]

Alphabet == {"1", "2", Quarter, Half, ThreeQuarters, " ", "U+0663"}
Texts(n) == UNION {[1..k -> Alphabet] : k \in 0..n}
Names == {None, Some(<<>>), Some(<<"A">>)}

\* the placemarks handed to the decoder on their own
DecodePlacemarks ==
    { Placemark(n, d, g) : n \in Names,
                           d \in {None} \cup {Some(t) : t \in Texts(MaxLen)},
                           g \in Geometries }

\* the leaves of the trees handed to the tree walk: the ignored kinds, a kind
\* the match does not name (Kml::Polygon), and three placemarks
WalkPlacemarks ==
    { Placemark(Some(<<"A">>), Some(<<"2", Half>>), Some(PointGeometry(<<51200000, -300000>>))),
      Placemark(Some(<<"B">>), None, None),
      Placemark(None, Some(<<"1">>), None) }
Leaves == {[kind |-> k] : k \in IgnoredKinds \cup {"Polygon"}} \cup WalkPlacemarks

\* what a node without children can be: a leaf or an empty container
ChildlessNodes == Leaves \cup {[kind |-> c, elements |-> <<>>] : c \in ContainerKinds}

RECURSIVE OnPathToRoot(_, _, _)
\* node a is node i or one of its ancestors (parent[root] = 0)
OnPathToRoot(parent, a, i) ==
    i # 0 /\ (a = i \/ OnPathToRoot(parent, a, parent[i]))

\* the shapes of the trees of up to MaxNodes nodes: the parent of every node,
\* the nodes numbered in document order
Shapes ==
    UNION { { parent \in [1..n -> 0..(n - 1)] :
                /\ parent[1] = 0
                /\ \A i \in 2..n : OnPathToRoot(parent, parent[i], i - 1) } :
            n \in 1..MaxNodes }

ChildrenOf(parent, i) == {j \in DOMAIN parent : parent[j] = i}
ChildlessOf(parent) == {i \in DOMAIN parent : ChildrenOf(parent, i) = {}}

RECURSIVE KmlTree(_, _, _, _)
\* the tree below node i: childless[i] when i has no children, else a
\* container of kind kinds[i] with the trees of its children, in order
KmlTree(parent, childless, kinds, i) ==
    LET children == ChildrenOf(parent, i)
    IN  IF children = {} THEN childless[i]
        ELSE [kind |-> kinds[i],
              elements |->
                [k \in 1..Cardinality(children) |->
                   KmlTree(parent, childless, kinds,
                           CHOOSE j \in children :
                              Cardinality({x \in children : x < j}) = k - 1)]]

\* the children of the document main reads
MainElements ==
    { Placemark(Some(<<"A">>), Some(<<"2", Half, " ", "1">>), Some(PointGeometry(<<51200000, -300000>>))),
      Placemark(Some(<<"B">>), None, Some(PointGeometry(<<51098848, -243409>>))),
      Placemark(Some(<<"C">>), Some(<<"1">>), Some(PointGeometry(<<51098500, -244000>>))),
      Placemark(Some(<<>>), Some(<<>>), Some([type |-> "Polygon"])),
      Placemark(Some(<<"E">>), Some(<<"1", Quarter, ThreeQuarters>>), None),
      Placemark(None, None, None),
      [kind |-> "Style"],
      [kind |-> "Folder", elements |->
          <<Placemark(Some(<<"H">>), Some(<<"1", "2">>), Some(PointGeometry(<<HOME_LATITUDE, HOME_LONGITUDE>>)))>>] }

Documents ==
    { [kind |-> "KmlDocument", elements |-> e] :
        e \in UNION {[1..k -> MainElements] : k \in 0..MaxWalks} }

\* what out.csv holds before the run
OldFile == << << <<"o", "l", "d">> >> >>

(***************************************************************************)
(* main, lines 147-169, one action per statement.                          *)
(***************************************************************************)
\* the archive on disk is a document, or cannot be read (None)
Init ==
    /\ pc = "load"
    /\ aborted = FALSE
    /\ kmz_file \in {None} \cup {Some(d) : d \in Documents}
    /\ kmz_data = None
    /\ walks = <<>>
    /\ stdout = None
    /\ csv = None
    /\ out_csv = Some(OldFile)

\* lines 148-150: from_kmz_path(..).unwrap() and read().unwrap()
Load ==
    /\ pc = "load" /\ ~aborted
    /\ IF IsSome(kmz_file)
       THEN kmz_data' = kmz_file /\ pc' = "walk" /\ UNCHANGED aborted
       ELSE aborted' = TRUE /\ UNCHANGED <<kmz_data, pc>>
    /\ UNCHANGED <<kmz_file, walks, stdout, csv, out_csv>>

\* line 153
ParseWalks ==
    /\ pc = "walk" /\ ~aborted
    /\ LET r == parse_fancy_free_walks_map(Unwrap(kmz_data))
       IN  IF r.ok
           THEN walks' = r.walks /\ pc' = "sort" /\ UNCHANGED aborted
           ELSE aborted' = TRUE /\ UNCHANGED <<walks, pc>>
    /\ UNCHANGED <<kmz_file, kmz_data, stdout, csv, out_csv>>

\* line 156
Sort ==
    /\ pc = "sort" /\ ~aborted
    /\ walks' = sort_by_distance(walks)
    /\ pc' = "print"
    /\ UNCHANGED <<aborted, kmz_file, kmz_data, stdout, csv, out_csv>>

\* line 159: println!("{:#?}", walks), which panics when the write to stdout
\* fails; the dump is then not complete and line 162 is never reached
PrintWalks ==
    /\ pc = "print" /\ ~aborted
    /\ \E printed \in BOOLEAN :
         IF printed
         THEN /\ stdout' = Some(walks)
              /\ pc' = "create"
              /\ UNCHANGED aborted
         ELSE /\ aborted' = TRUE
              /\ UNCHANGED <<stdout, pc>>
    /\ UNCHANGED <<kmz_file, kmz_data, walks, csv, out_csv>>

\* faulty variant: the file is truncated even when opening the writer fails
CreateTruncatingFirst ==
    /\ pc = "create" /\ ~aborted
    /\ out_csv' = Some(<<>>)
    /\ \E created \in BOOLEAN :
         IF created
         THEN /\ csv' = Some(NewWriter)
              /\ pc' = "write"
              /\ UNCHANGED aborted
         ELSE /\ aborted' = TRUE
              /\ UNCHANGED <<csv, pc>>
    /\ UNCHANGED <<kmz_file, kmz_data, walks, stdout>>

\* line 162: Writer::from_path("out.csv")?
Create ==
    /\ pc = "create" /\ ~aborted
    /\ \E created \in BOOLEAN :
         IF created
         THEN /\ out_csv' = Some(<<>>)
              /\ csv' = Some(NewWriter)
              /\ pc' = "write"
              /\ UNCHANGED aborted
         ELSE /\ aborted' = TRUE
              /\ UNCHANGED <<out_csv, csv, pc>>
    /\ UNCHANGED <<kmz_file, kmz_data, walks, stdout>>

\* lines 163-165: csv.serialize(walk)? for the next walk. The lines go to the
\* writer's buffer; when the buffer is full it is written to the file, and
\* that write can fail, in which case main returns the error with whatever
\* part of the buffer reached the file.
Serialize ==
    /\ pc = "write" /\ ~aborted
    /\ Unwrap(csv).next <= Len(walks)
    /\ LET writer == Unwrap(csv)
           buf == writer.buf \o SerializedLines(writer, walks[writer.next])
           after == [header_written |-> TRUE, buf |-> buf, next |-> writer.next + 1]
       IN  \E io \in {"buffered", "written", "failed"} :
             CASE io = "buffered" ->
                    /\ csv' = Some(after)
                    /\ UNCHANGED <<out_csv, aborted>>
               [] io = "written" ->
                    /\ out_csv' = Some(Unwrap(out_csv) \o buf)
                    /\ csv' = Some([after EXCEPT !.buf = <<>>])
                    /\ UNCHANGED aborted
               [] io = "failed" ->
                    /\ \E k \in 0..Len(buf) :
                         out_csv' = Some(Unwrap(out_csv) \o SubSeq(buf, 1, k))
                    /\ csv' = None
                    /\ aborted' = TRUE
    /\ UNCHANGED <<pc, kmz_file, kmz_data, walks, stdout>>

\* lines 166-168: csv.flush()? and Ok(())
Flush ==
    /\ pc = "write" /\ ~aborted
    /\ Unwrap(csv).next > Len(walks)
    /\ LET buf == Unwrap(csv).buf
       IN  \E flushed \in BOOLEAN :
             IF flushed
             THEN /\ out_csv' = Some(Unwrap(out_csv) \o buf)
                  /\ csv' = None
                  /\ pc' = "done"
                  /\ UNCHANGED aborted
             ELSE /\ \E k \in 0..Len(buf) :
                       out_csv' = Some(Unwrap(out_csv) \o SubSeq(buf, 1, k))
                  /\ csv' = None
                  /\ aborted' = TRUE
                  /\ UNCHANGED pc
    /\ UNCHANGED <<kmz_file, kmz_data, walks, stdout>>

Next == Load \/ ParseWalks \/ Sort \/ PrintWalks \/ Create \/ Serialize \/ Flush

Spec == Init /\ [][Next]_vars

(***************************************************************************)
(* parse_fancy_free_walks_map on its own, applied to every bounded tree    *)
(* (SpecWalk) and to every bounded placemark (SpecDecode).                 *)
(***************************************************************************)
InitCall(input) ==
    /\ pc = "walk"
    /\ aborted = FALSE
    /\ kmz_file = None
    /\ kmz_data = Some(input)
    /\ walks = <<>>
    /\ stdout = None
    /\ csv = None
    /\ out_csv = Some(OldFile)

\* every tree of up to MaxNodes nodes
InitWalk ==
    \E parent \in Shapes :
      \E childless \in [ChildlessOf(parent) -> ChildlessNodes] :
        \E kinds \in [DOMAIN parent \ ChildlessOf(parent) -> ContainerKinds] :
          InitCall(KmlTree(parent, childless, kinds, 1))
NextWalk == ParseWalks
SpecWalk == InitWalk /\ [][NextWalk]_vars

InitDecode == \E placemark \in DecodePlacemarks : InitCall(placemark)
NextDecode == ParseWalks
SpecDecode == InitDecode /\ [][NextDecode]_vars

(***************************************************************************)
(* Properties.                                                             *)
(***************************************************************************)
\* the input of the call, the call's position in it
Input == Unwrap(kmz_data)
Called == pc # "load" /\ (pc # "walk" \/ aborted)
ReturnedFromWalk == pc \notin {"load", "walk"}

RECURSIVE PathsOf(_)
\* the child-index paths from `node` to the nodes below it that every
\* ancestor of which (from `node` on) is a container
PathsOf(node) ==
    {<<>>} \cup
    (IF node.kind \in {"KmlDocument", "Document", "Folder"}
     THEN UNION { {<<i>> \o p : p \in PathsOf(node.elements[i])} :
                  i \in 1..Len(node.elements) }
     ELSE {})

RECURSIVE NodeAt(_, _)
NodeAt(node, path) ==
    IF path = <<>> THEN node ELSE NodeAt(node.elements[Head(path)], Tail(path))

PlacemarkPaths(root) == {p \in PathsOf(root) : NodeAt(root, p).kind = "Placemark"}

\* p comes before q in document order (neither is a prefix of the other)
Before(p, q) ==
    \E i \in 1..Len(p) :
        /\ i <= Len(q)
        /\ SubSeq(p, 1, i - 1) = SubSeq(q, 1, i - 1)
        /\ p[i] < q[i]

\* the reachable placemarks in document order
ReachablePlacemarks(root) ==
    LET paths == PlacemarkPaths(root)
    IN  [i \in 1..Cardinality(paths) |->
            NodeAt(root, CHOOSE p \in paths :
                            Cardinality({q \in paths : Before(q, p)}) = i - 1)]

\* C1: the walk returns one record per placemark reachable from the root
\* through KmlDocument, Document and Folder nodes only, in document order;
\* nodes of any other kind contribute nothing, and the walk is aborted only
\* by a reachable placemark whose decoding panics.
C1_WalkCollectsReachablePlacemarks ==
    LET placemarks == ReachablePlacemarks(Input)
    IN  /\ Called /\ aborted =>
              \E i \in 1..Len(placemarks) : ~IsSome(DecodePlacemark(placemarks[i]))
        /\ ReturnedFromWalk =>
              /\ Len(walks) = Len(placemarks)
              /\ \A i \in 1..Len(walks) :
                    /\ IsSome(placemarks[i].name)
                    /\ walks[i].name = Unwrap(placemarks[i].name)
                    /\ Some(walks[i]) = DecodePlacemark(placemarks[i])

\* a folder in a folder holding two placemarks, walked to two records
C1_Witness ==
    /\ ReturnedFromWalk
    /\ Input.kind = "Folder"
    /\ Len(walks) = 2
    /\ walks[1].name = <<"A">> /\ walks[2].name = <<"B">>
    /\ {<<1, 1>>, <<1, 2>>} \subseteq PlacemarkPaths(Input)

\* C2: after the sort the list is a permutation of the list the walk returned,
\* in non-decreasing distance, records of equal distance in the order of the
\* walk.
IsStableSortOf(out, in) ==
    /\ Len(out) = Len(in)
    /\ \E f \in [1..Len(in) -> 1..Len(in)] :
          /\ \A i, j \in 1..Len(in) : i # j => f[i] # f[j]
          /\ \A i \in 1..Len(in) : out[i] = in[f[i]]
          /\ \A i, j \in 1..Len(in) :
                i < j => \/ out[i].distance < out[j].distance
                         \/ out[i].distance = out[j].distance /\ f[i] < f[j]

C2_SortIsStableByDistance ==
    pc \in {"print", "create", "write", "done"} =>
        IsStableSortOf(walks, [i \in 1..Len(ReachablePlacemarks(Input)) |->
                                 Unwrap(DecodePlacemark(ReachablePlacemarks(Input)[i]))])

\* walked as A (7.5), B (0.1), C (0.1); sorted to B, C, A
C2_Witness ==
    /\ pc = "print"
    /\ Len(Input.elements) = 3
    /\ Input.elements[1].kind = "Placemark" /\ Input.elements[1].name = Some(<<"A">>)
    /\ Input.elements[2].kind = "Placemark" /\ Input.elements[2].name = Some(<<"B">>)
    /\ [i \in 1..3 |-> walks[i].name] = << <<"B">>, <<"C">>, <<"A">> >>
    /\ walks[1].distance = walks[2].distance

\* the tokens of a description: <<i, j, k>> with i..j a maximal run of digits
\* and j+1..k the maximal run of fraction glyphs behind it
Tokens(d) ==
    { t \in (1..Len(d)) \X (1..Len(d)) \X (1..Len(d)) :
        /\ t[1] <= t[2] /\ t[2] <= t[3]
        /\ \A m \in t[1]..t[2] : d[m] \in UnicodeDigits
        /\ t[1] = 1 \/ d[t[1] - 1] \notin UnicodeDigits
        /\ \A m \in (t[2] + 1)..t[3] : d[m] \in FractionGlyphs
        /\ t[2] = Len(d) \/ d[t[2] + 1] \notin UnicodeDigits
        /\ t[3] = Len(d) \/ d[t[3] + 1] \notin FractionGlyphs }

GlyphHundredths(c) ==
    CASE c = Quarter -> 25 [] c = Half -> 50 [] c = ThreeQuarters -> 75

RECURSIVE DigitsValue(_, _, _)
DigitsValue(d, i, j) ==
    IF i > j THEN 0 ELSE DigitValue(d[i]) * Pow10(j - i) + DigitsValue(d, i + 1, j)

\* the value of a token of ASCII digits and at most one glyph, in hundredths
TokenValue(d, t) ==
    100 * DigitsValue(d, t[1], t[2])
      + (IF t[3] > t[2] THEN GlyphHundredths(d[t[3]]) ELSE 0)

\* a token main cannot parse: two or more glyphs, or a digit outside ASCII
Unparsable(d, t) ==
    t[3] > t[2] + 1 \/ \E m \in t[1]..t[2] : d[m] \notin AsciiDigits

\* C3: the record's length is the largest token value of the description, 0
\* when there is no token; without a description the record has the
\* description "" and the length 0.
C3_LengthIsLargestToken ==
    (ReturnedFromWalk /\ Input.kind = "Placemark") =>
        /\ Len(walks) = 1
        /\ IF IsSome(Input.description)
           THEN LET d == Unwrap(Input.description)
                    values == {TokenValue(d, t) : t \in Tokens(d)}
                IN  /\ walks[1].description = d
                    /\ walks[1].length \in values \cup {0}
                    /\ \A v \in values : v <= walks[1].length
           ELSE walks[1].description = <<>> /\ walks[1].length = 0

\* "2 1/2" then "1": the larger token comes first
C3_Witness ==
    /\ ReturnedFromWalk
    /\ Input.kind = "Placemark"
    /\ Input.description = Some(<<"2", Half, "1">>)
    /\ walks[1].length = 250

\* C4 as claimed: a placemark with a name is always decoded
C4_Original_FailsOnlyWithoutName ==
    (Called /\ Input.kind = "Placemark" /\ IsSome(Input.name)) =>
        ~aborted /\ Len(walks) = 1

\* C4, amended: decoding a placemark returns exactly one record unless it
\* panics, and it panics exactly when the name is absent, or a token of the
\* description cannot be parsed (two or more glyphs, a non-ASCII digit), or
\* the geometry is a point whose distance from home the library cannot
\* compute. An absent or empty description and an absent or other geometry
\* never fail.
C4_DecodeFailsExactlyOnNameTokenOrDistance ==
    (Called /\ Input.kind = "Placemark") =>
        LET d == PlacemarkDescription(Input)
            fatal == \/ ~IsSome(Input.name)
                     \/ \E t \in Tokens(d) : Unparsable(d, t)
                     \/ /\ IsPoint(Input.geometry)
                        /\ ~IsSome(distance_to(Unwrap(Input.geometry).y,
                                               Unwrap(Input.geometry).x))
        IN  /\ aborted <=> fatal
            /\ ~aborted => Len(walks) = 1

\* a named placemark without description, with a polygon: one record
C4_Witness ==
    /\ ReturnedFromWalk
    /\ Input.kind = "Placemark"
    /\ IsSome(Input.name)
    /\ Input.description = None
    /\ Input.geometry = Some([type |-> "Polygon"])
    /\ Len(walks) = 1

\* a description with a token of digits followed by two or more glyphs
HasMultiGlyphToken(placemark) ==
    /\ IsSome(placemark.description)
    /\ \E t \in Tokens(Unwrap(placemark.description)) : t[3] > t[2] + 1

\* C5: when a description of the document holds a token of digits followed
\* by two or more glyphs, the run is aborted in the walk: no list is
\* returned, nothing is sorted, printed or exported.
C5_MultiGlyphTokenAbortsRun ==
    (IsSome(kmz_file) /\
     \E i \in 1..Len(ReachablePlacemarks(Unwrap(kmz_file))) :
        HasMultiGlyphToken(ReachablePlacemarks(Unwrap(kmz_file))[i])) =>
        /\ pc \in {"load", "walk"}
        /\ walks = <<>> /\ stdout = None /\ csv = None
        /\ out_csv = Some(OldFile)

\* a document whose only flaw is the token "1 1/4 3/4", aborted in the walk
C5_Witness ==
    /\ pc = "walk" /\ aborted
    /\ LET placemarks == ReachablePlacemarks(Input)
       IN  /\ Len(placemarks) >= 2
           /\ HasMultiGlyphToken(placemarks[Len(placemarks)])
           /\ \A i \in 1..Len(placemarks) : IsSome(placemarks[i].name)
    /\ out_csv = Some(OldFile)

\* C6 as claimed: an aborted run leaves out.csv as it was
C6_Original_AbortLeavesFileUntouched ==
    aborted => out_csv = Some(OldFile)

\* C6, amended: out.csv is as it was until the writer is created, so a run
\* aborted in the load, the walk, the sort, the print or the creation of the
\* writer leaves it untouched; a run aborted while writing has truncated
\* it: the previous content is gone and what it holds may be a part of the
\* export.
C6_AbortBeforeWriteLeavesFileUntouched ==
    /\ pc \in {"load", "walk", "sort", "print", "create"} => out_csv = Some(OldFile)
    /\ (aborted /\ pc = "write") =>
          /\ out_csv # Some(OldFile)
          /\ \A i \in 1..Len(Unwrap(out_csv)) : Unwrap(out_csv)[i] \notin Range(OldFile)

\* two records, aborted with the header and the first row in the file
C6_Witness ==
    /\ aborted /\ pc = "write"
    /\ Len(walks) = 2
    /\ Unwrap(out_csv) = <<Header, Row(walks[1])>>

\* C7 as claimed: the header row is there for any number of records
C7_Original_HeaderThenRows ==
    pc = "done" =>
        out_csv = Some(<<Header>> \o [i \in 1..Len(walks) |-> Row(walks[i])])

\* C7, amended: after a successful run with at least one record out.csv is
\* the header row followed by one row per record of the sorted list, in its
\* order; with no record it is empty, without a header row. The previous
\* content is gone in both cases.
C7_ExportIsHeaderAndRowsUnlessEmpty ==
    pc = "done" =>
        /\ \A i \in 1..(Len(walks) - 1) : walks[i].distance <= walks[i + 1].distance
        /\ IF Len(walks) = 0
           THEN out_csv = Some(<<>>)
           ELSE /\ Len(Unwrap(out_csv)) = Len(walks) + 1
                /\ Unwrap(out_csv)[1] = Header
                /\ \A i \in 1..Len(walks) : Unwrap(out_csv)[i + 1] = Row(walks[i])

\* three records exported in sorted order
C7_Witness ==
    /\ pc = "done"
    /\ Len(walks) = 3
    /\ walks[1].distance < walks[3].distance
    /\ Len(Unwrap(out_csv)) = 4

\* C8 as claimed: no record of the final list has an empty name
C8_Original_NamesNonEmpty ==
    pc = "done" => \A i \in 1..Len(walks) : walks[i].name # <<>>

\* C8, amended: every record of the final list carries the name of a
\* placemark of the document, every placemark of which has a name; the name
\* may be the empty text.
C8_NamesPresent ==
    pc = "done" =>
        LET placemarks == ReachablePlacemarks(Input)
        IN  /\ \A i \in 1..Len(placemarks) : IsSome(placemarks[i].name)
            /\ \A i \in 1..Len(walks) :
                  \E j \in 1..Len(placemarks) : Some(walks[i].name) = placemarks[j].name

\* a completed run with a record of empty name
C8_Witness ==
    /\ pc = "done"
    /\ \E i \in 1..Len(walks) : walks[i].name = <<>>

\* C9: without a point geometry latitude, longitude and distance are 0; with
\* one, latitude is its Y and longitude its X ordinate, and the distance of
\* the home coordinate is 0.
C9_GeometryDefaultsAndOrdinates ==
    (ReturnedFromWalk /\ Input.kind = "Placemark") =>
        LET g == Input.geometry
            w == walks[1]
        IN  IF g # None /\ Unwrap(g).type = "Point"
            THEN /\ w.latitude = Unwrap(g).y
                 /\ w.longitude = Unwrap(g).x
                 /\ (Unwrap(g).y = HOME_LATITUDE /\ Unwrap(g).x = HOME_LONGITUDE)
                       => w.distance = 0
            ELSE w.latitude = 0 /\ w.longitude = 0 /\ w.distance = 0

\* a point whose ordinates differ, decoded
C9_Witness ==
    /\ ReturnedFromWalk
    /\ Input.kind = "Placemark"
    /\ Input.geometry = Some([type |-> "Point", y |-> 51200000, x |-> -300000])
    /\ walks[1].latitude = 51200000 /\ walks[1].longitude = -300000

\* millimetres * 6213712 in limbs of 10^4, lowest first, the last one
\* unbounded: the miles from home in units of 10^-13
MilesProduct(mm) ==
    LET a == mm \div 10000
        b == mm % 10000
        c == TenthMilesPerMeter \div 10000
        d == TenthMilesPerMeter % 10000
        p0 == b * d
        p1 == a * d + b * c + p0 \div 10000
        p2 == a * c + p1 \div 10000
    IN  <<p0 % 10000, p1 % 10000, p2 % 10000, p2 \div 10000>>

\* C10: the distance of a point placemark is the miles from home rounded to
\* one decimal: with miles = meters * 0.0006213712, distance (in tenths) is
\* within 1/2 of 10 * miles, that is |distance - miles| <= 0.05.
C10_DistanceRoundedToTenthOfMile ==
    (ReturnedFromWalk /\ Input.kind = "Placemark" /\ IsPoint(Input.geometry)) =>
        LET mm == Unwrap(distance_to(Unwrap(Input.geometry).y, Unwrap(Input.geometry).x))
            n == MilesProduct(mm)
            tenths == walks[1].distance
        IN  \/ tenths = n[4] /\ (n[3] < 5000 \/ (n[3] = 5000 /\ n[2] = 0 /\ n[1] = 0))
            \/ tenths = n[4] + 1 /\ n[3] >= 5000

\* 12034.643 m are 7.478 miles: 7.5, not 7.0
C10_Witness ==
    /\ ReturnedFromWalk
    /\ Input.kind = "Placemark"
    /\ Input.geometry = Some([type |-> "Point", y |-> 51200000, x |-> -300000])
    /\ walks[1].distance = 75

====
